---------------------------- MODULE Spec2Model ----------------------------
(***************************************************************************)
(* Model of the opener plugin: the Program identifier (open.rs) and the    *)
(* three commands open_url, open_path and reveal_item_in_dir               *)
(* (commands.rs), which merge the call scope with the global scope, ask    *)
(* the scope for a decision and hand the resource to the OS opener.        *)
(*                                                                         *)
(* Strings.  A program token is a sequence of one-character strings, so    *)
(* that to_lowercase acts on characters.  A URL is a sequence of lexical   *)
(* pieces ("https://", "evil", ".example.com", "/", "x") and a path is the *)
(* sequence of its components below the root; a pattern is such a sequence *)
(* in which the piece "*" stands for any run of pieces.                    *)
(***************************************************************************)
EXTENDS Naturals, Sequences, FiniteSets

VARIABLES
    target_os,    \* the build target: cfg(target_os = "macos") or not
    globalScope,  \* GlobalScope<Entry>: [allows, denies], application wide
    pc,           \* per request slot: position of the command handler
    req,          \* per request slot: the arguments of the invocation
    scope,        \* per request slot: the handler's local `scope`
    result,       \* per request slot: what the command returned
    launches,     \* per request slot: the calls made to the OS opener
    parse         \* Program::from_str under test: [input, done, output]

vars == <<target_os, globalScope, pc, req, scope, result, launches, parse>>

-----------------------------------------------------------------------------
(* Bounds *)

NumReqs == 2        \* request slots that can be in flight together

Reqs == 1..NumReqs

-----------------------------------------------------------------------------
(* Program (open.rs) *)

Program ==
    {"Open", "Start", "XdgOpen", "Gio", "GnomeOpen", "KdeOpen", "WslView",
     "Firefox", "Chrome", "Chromium", "Safari"}

UpperChars ==
    <<"A", "B", "C", "D", "E", "F", "G", "H", "I", "J", "K", "L", "M",
      "N", "O", "P", "Q", "R", "S", "T", "U", "V", "W", "X", "Y", "Z">>

LowerChars ==
    <<"a", "b", "c", "d", "e", "f", "g", "h", "i", "j", "k", "l", "m",
      "n", "o", "p", "q", "r", "s", "t", "u", "v", "w", "x", "y", "z">>

\* U+212A KELVIN SIGN, a non-ASCII character whose lowercase is ASCII "k".
KelvinSign == "U+212A"

\* char::to_lowercase on the characters the inputs are made of.
char_to_lowercase(c) ==
    IF \E i \in 1..26 : UpperChars[i] = c
    THEN LowerChars[CHOOSE i \in 1..26 : UpperChars[i] = c]
    ELSE IF c = KelvinSign THEN "k" ELSE c

\* str::to_lowercase: every character replaced by its lowercase.
to_lowercase(s) == [i \in 1..Len(s) |-> char_to_lowercase(s[i])]

\* impl Display for Program: the canonical token of a variant.
fmt(p) ==
    CASE p = "Open"      -> <<"o", "p", "e", "n">>
      [] p = "Start"     -> <<"s", "t", "a", "r", "t">>
      [] p = "XdgOpen"   -> <<"x", "d", "g", "-", "o", "p", "e", "n">>
      [] p = "Gio"       -> <<"g", "i", "o">>
      [] p = "GnomeOpen" -> <<"g", "n", "o", "m", "e", "-", "o", "p", "e", "n">>
      [] p = "KdeOpen"   -> <<"k", "d", "e", "-", "o", "p", "e", "n">>
      [] p = "WslView"   -> <<"w", "s", "l", "v", "i", "e", "w">>
      [] p = "Firefox"   -> <<"f", "i", "r", "e", "f", "o", "x">>
      [] p = "Chrome"    -> <<"c", "h", "r", "o", "m", "e">>
      [] p = "Chromium"  -> <<"c", "h", "r", "o", "m", "i", "u", "m">>
      [] p = "Safari"    -> <<"s", "a", "f", "a", "r", "i">>

Ok(v) == [ok |-> TRUE, val |-> v]
Err(kind, payload) == [ok |-> FALSE, kind |-> kind, payload |-> payload]

\* A plausible slip: matching the input as given instead of its lowercase.
from_str_case_sensitive(s) ==
    LET l == s IN
    CASE l = <<"o", "p", "e", "n">> -> Ok("Open")
      [] l = <<"s", "t", "a", "r", "t">> -> Ok("Start")
      [] l = <<"x", "d", "g", "-", "o", "p", "e", "n">> -> Ok("XdgOpen")
      [] l = <<"g", "i", "o">> -> Ok("Gio")
      [] l = <<"g", "n", "o", "m", "e", "-", "o", "p", "e", "n">> -> Ok("GnomeOpen")
      [] l = <<"k", "d", "e", "-", "o", "p", "e", "n">> -> Ok("KdeOpen")
      [] l = <<"w", "s", "l", "v", "i", "e", "w">> -> Ok("WslView")
      [] l = <<"f", "i", "r", "e", "f", "o", "x">> -> Ok("Firefox")
      [] l = <<"c", "h", "r", "o", "m", "e">> -> Ok("Chrome")
      [] l = <<"g", "o", "o", "g", "l", "e", " ", "c", "h", "r", "o", "m", "e">>
            -> Ok("Chrome")
      [] l = <<"c", "h", "r", "o", "m", "i", "u", "m">> -> Ok("Chromium")
      [] l = <<"s", "a", "f", "a", "r", "i">> -> Ok("Safari")
      [] OTHER -> Err("UnknownProgramName", s)

\* impl FromStr for Program.
from_str(s) ==
    LET l == to_lowercase(s) IN
    CASE l = <<"o", "p", "e", "n">> -> Ok("Open")
      [] l = <<"s", "t", "a", "r", "t">> -> Ok("Start")
      [] l = <<"x", "d", "g", "-", "o", "p", "e", "n">> -> Ok("XdgOpen")
      [] l = <<"g", "i", "o">> -> Ok("Gio")
      [] l = <<"g", "n", "o", "m", "e", "-", "o", "p", "e", "n">> -> Ok("GnomeOpen")
      [] l = <<"k", "d", "e", "-", "o", "p", "e", "n">> -> Ok("KdeOpen")
      [] l = <<"w", "s", "l", "v", "i", "e", "w">> -> Ok("WslView")
      [] l = <<"f", "i", "r", "e", "f", "o", "x">> -> Ok("Firefox")
      [] l = <<"c", "h", "r", "o", "m", "e">> -> Ok("Chrome")
      [] l = <<"g", "o", "o", "g", "l", "e", " ", "c", "h", "r", "o", "m", "e">>
            -> Ok("Chrome")
      [] l = <<"c", "h", "r", "o", "m", "i", "u", "m">> -> Ok("Chromium")
      [] l = <<"s", "a", "f", "a", "r", "i">> -> Ok("Safari")
      [] OTHER -> Err("UnknownProgramName", s)

\* Program::name: the executable name, fixed by the build target.
name(p, os) ==
    CASE p = "Firefox" ->
            IF os = "macos" THEN <<"F", "i", "r", "e", "f", "o", "x">>
            ELSE <<"f", "i", "r", "e", "f", "o", "x">>
      [] p = "Chrome" ->
            IF os = "macos"
            THEN <<"G", "o", "o", "g", "l", "e", " ", "C", "h", "r", "o", "m", "e">>
            ELSE <<"g", "o", "o", "g", "l", "e", "-", "c", "h", "r", "o", "m", "e">>
      [] p = "Chromium" ->
            IF os = "macos" THEN <<"C", "h", "r", "o", "m", "i", "u", "m">>
            ELSE <<"c", "h", "r", "o", "m", "i", "u", "m">>
      [] p = "Safari" ->
            IF os = "macos" THEN <<"S", "a", "f", "a", "r", "i">>
            ELSE <<"s", "a", "f", "a", "r", "i">>
      [] p = "Open"      -> <<"o", "p", "e", "n">>
      [] p = "Start"     -> <<"s", "t", "a", "r", "t">>
      [] p = "XdgOpen"   -> <<"x", "d", "g", "-", "o", "p", "e", "n">>
      [] p = "Gio"       -> <<"g", "i", "o">>
      [] p = "GnomeOpen" -> <<"g", "n", "o", "m", "e", "-", "o", "p", "e", "n">>
      [] p = "KdeOpen"   -> <<"k", "d", "e", "-", "o", "p", "e", "n">>
      [] p = "WslView"   -> <<"w", "s", "l", "v", "i", "e", "w">>

-----------------------------------------------------------------------------
(* Scope entries and the resources of the model *)

UrlEntry(pattern) == [shape |-> "url", pattern |-> pattern]
PathEntry(pattern) == [shape |-> "path", pattern |-> pattern]

AnyExampleHost == UrlEntry(<<"https://", "*", ".example.com", "/", "*">>)
EvilHost == UrlEntry(<<"https://", "evil", ".example.com", "/", "*">>)
DocsTree == PathEntry(<<"docs", "*">>)

Entries == {AnyExampleHost, EvilHost, DocsTree}

OkUrl == <<"https://", "ok", ".example.com", "/", "x">>
EvilUrl == <<"https://", "evil", ".example.com", "/", "x">>
OtherUrl == <<"http://", "other", ".org", "/">>

Urls == {OkUrl, EvilUrl, OtherUrl}

Report == <<"docs", "report.pdf">>
DotDotKey == <<"docs", "..", "secrets", "key">>
SecretKey == <<"secrets", "key">>
LinkToKey == <<"docs", "link">>
Missing == <<"docs", "missing">>
AroundReport == <<"secrets", "..", "docs", "report.pdf">>

Paths == {Report, DotDotKey, SecretKey, LinkToKey, Missing, AroundReport}

\* The filesystem the paths are resolved in.
Dirs == {<<>>, <<"docs">>, <<"secrets">>}
Files == {Report, SecretKey}
Symlinks == {LinkToKey}
SymlinkTarget(p) == SecretKey

-----------------------------------------------------------------------------
(* Scope (the matcher behind Scope::new, is_url_allowed, is_path_allowed) *)

\* A pattern matches a string piece by piece; "*" matches any run of pieces.
RECURSIVE GlobMatch(_, _)
GlobMatch(pat, s) ==
    IF pat = <<>> THEN s = <<>>
    ELSE IF Head(pat) = "*"
         THEN GlobMatch(Tail(pat), s) \/ (s # <<>> /\ GlobMatch(pat, Tail(s)))
         ELSE s # <<>> /\ Head(s) = Head(pat) /\ GlobMatch(Tail(pat), Tail(s))

matches_url(e, url) == e.shape = "url" /\ GlobMatch(e.pattern, url)
matches_path(e, path) == e.shape = "path" /\ GlobMatch(e.pattern, path)

\* Resolution of a path against the filesystem: ".." steps to the parent, a
\* symbolic link is replaced by its target, and a component that does not
\* exist (or a step below something that is no directory) fails.
RECURSIVE Resolve(_, _)
Resolve(cur, rest) ==
    IF rest = <<>> THEN Ok(cur)
    ELSE IF cur \notin Dirs THEN Err("PathResolutionError", cur)
    ELSE IF Head(rest) = ".."
         THEN Resolve(IF cur = <<>> THEN cur ELSE SubSeq(cur, 1, Len(cur) - 1),
                      Tail(rest))
    ELSE LET nxt == Append(cur, Head(rest)) IN
         IF nxt \in Symlinks THEN Resolve(SymlinkTarget(nxt), Tail(rest))
         ELSE IF nxt \in Dirs \cup Files THEN Resolve(nxt, Tail(rest))
         ELSE Err("PathResolutionError", nxt)

canonicalize(path) == Resolve(<<>>, path)

Scope_new(allowed, denied) == [allowed |-> allowed, denied |-> denied]

\* Deny first, then allow, else deny.
is_url_allowed(sc, url) ==
    IF \E i \in DOMAIN sc.denied : matches_url(sc.denied[i], url) THEN FALSE
    ELSE \E i \in DOMAIN sc.allowed : matches_url(sc.allowed[i], url)

\* The slip of matching the string the caller gave instead of what it
\* resolves to.
is_path_allowed_raw(sc, path) ==
    LET n == canonicalize(path) IN
    IF ~n.ok THEN n
    ELSE IF \E i \in DOMAIN sc.denied : matches_path(sc.denied[i], path)
         THEN Ok(FALSE)
         ELSE Ok(\E i \in DOMAIN sc.allowed : matches_path(sc.allowed[i], path))

\* The path is resolved first; the resolved path is what the entries see.
is_path_allowed(sc, path) ==
    LET n == canonicalize(path) IN
    IF ~n.ok THEN n
    ELSE IF \E i \in DOMAIN sc.denied : matches_path(sc.denied[i], n.val)
         THEN Ok(FALSE)
         ELSE Ok(\E i \in DOMAIN sc.allowed : matches_path(sc.allowed[i], n.val))

-----------------------------------------------------------------------------
(* The OS opener and the library functions (open.rs) *)

None == [some |-> FALSE]
Some(v) == [some |-> TRUE, val |-> v]

\* The slip of passing the canonical token where the executable name is due.
open_with_canonical_name(path, with, os) ==
    IF with.some
    THEN [fn |-> "with_detached", path |-> path, program |-> Some(fmt(with.val))]
    ELSE [fn |-> "that_detached", path |-> path, program |-> None]

\* open(path, with): the one call it makes to the `open` crate.
open(path, with, os) ==
    IF with.some
    THEN [fn |-> "with_detached", path |-> path,
          program |-> Some(name(with.val, os))]
    ELSE [fn |-> "that_detached", path |-> path, program |-> None]

\* open_url / open_path of the library: the resource is passed on as it is.
open_url(url, with, os) == open(url, with, os)
open_path(path, with, os) == open(path, with, os)

\* crate::reveal_item_in_dir: the path is handed to the file manager.
reveal_item_in_dir(path) ==
    [fn |-> "reveal_item_in_dir", path |-> path, program |-> None]

\* Display of crate::Error::UnknownProgramName: the text with the token in it.
to_string(e) == <<"unknown program name: ">> \o e.payload

\* impl Deserialize for Program: from_str on the string sent; its error is
\* turned into the deserializer's own error, which keeps only the text.
deserialize(s) ==
    LET p == from_str(s) IN
    IF p.ok THEN p ELSE Err("DeserializeError", to_string(p))

\* The optional `with` argument of a command: absent, or a Program.
deserialize_with(with) ==
    IF ~with.some THEN Ok(None)
    ELSE LET p == deserialize(with.val) IN
         IF p.ok THEN Ok(Some(p.val)) ELSE p

-----------------------------------------------------------------------------
(* The commands (commands.rs) *)

\* Iterator::chain followed by collect.
chain(a, b) == a \o b

\* The slip of leaving the global denies out of the merge.
open_url_scope_call_denies_only(command_scope, global_scope) ==
    Scope_new(chain(command_scope.allows, global_scope.allows),
              command_scope.denies)

\* open_url: the scope of the request, call scope first, global scope after.
open_url_scope(command_scope, global_scope) ==
    Scope_new(chain(command_scope.allows, global_scope.allows),
              chain(command_scope.denies, global_scope.denies))

\* open_path: the same merge.
open_path_scope(command_scope, global_scope) ==
    Scope_new(chain(command_scope.allows, global_scope.allows),
              chain(command_scope.denies, global_scope.denies))

\* What a gate answers: go on to the opener, or return `result` at once.
Proceed == [proceed |-> TRUE]
Return(res) == [proceed |-> FALSE, result |-> res]

\* The slip of treating a denial as a warning.
open_url_gate_warn_only(sc, path) == Proceed

\* open_url: the gate in front of crate::open_url.
open_url_gate(sc, path) ==
    IF is_url_allowed(sc, path) THEN Proceed
    ELSE Return(Err("ForbiddenUrl", path))

\* The slip of testing the condition the wrong way round.
open_path_gate_inverted(sc, path) ==
    LET allowed == is_path_allowed(sc, path) IN
    IF ~allowed.ok THEN Return(allowed)
    ELSE IF ~allowed.val THEN Proceed
    ELSE Return(Err("ForbiddenPath", path))

\* The slip of reporting the resolved path instead of the requested one.
open_path_gate_reports_resolved(sc, path) ==
    LET allowed == is_path_allowed(sc, path) IN
    IF ~allowed.ok THEN Return(allowed)
    ELSE IF allowed.val THEN Proceed
    ELSE Return(Err("ForbiddenPath", canonicalize(path).val))

\* The slip of reading a failed resolution as "not allowed".
open_path_gate_error_is_denial(sc, path) ==
    LET allowed == is_path_allowed(sc, path) IN
    IF allowed.ok /\ allowed.val THEN Proceed
    ELSE Return(Err("ForbiddenPath", path))

\* open_path: the gate in front of crate::open_path; `?` returns the error
\* of is_path_allowed.
open_path_gate(sc, path) ==
    LET allowed == is_path_allowed(sc, path) IN
    IF ~allowed.ok THEN Return(allowed)
    ELSE IF allowed.val THEN Proceed
    ELSE Return(Err("ForbiddenPath", path))

\* The slip of sending reveal_item_in_dir through the scope like open_path.
first_step_all_gated(cmd) == "scope"

\* Where the body of a command starts: open_url and open_path build their
\* scope, reveal_item_in_dir goes straight to the OS.
first_step(cmd) ==
    IF cmd = "reveal_item_in_dir" THEN "launch" ELSE "scope"

\* The slip of keeping the merged scope in one place shared by all requests.
scope_binding_shared(r) == 1

\* `let scope = ...`: the scope is a local of the request that built it.
scope_binding(r) == r

-----------------------------------------------------------------------------
(* Inputs *)

\* The call scope of one invocation: no entry or one entry on either side.
CallLists == {<<>>} \cup {<<e>> : e \in Entries}
CommandScopes == [allows : CallLists, denies : CallLists]

\* The global scope of the application: no entry, one entry, or two entries
\* of which both, one or none match a given resource.
GlobalScopes ==
    [allows : CallLists \cup {<<AnyExampleHost, DocsTree>>},
     denies : CallLists \cup {<<EvilHost, DocsTree>>}]

NoScope == [allows |-> <<>>, denies |-> <<>>]

WithTokens ==
    {None,
     Some(<<"C", "h", "r", "o", "m", "e">>),
     Some(<<"X", "D", "G", "-", "O", "P", "E", "N">>),
     Some(<<"n", "o", "p", "e">>)}

\* Every resource under every call scope without `with`, and one resource
\* of each kind under every call scope with every `with`.
Invocations ==
    [cmd : {"open_url"}, path : Urls, with : {None},
     command_scope : CommandScopes]
    \cup
    [cmd : {"open_url"}, path : {OkUrl}, with : WithTokens,
     command_scope : CommandScopes]
    \cup
    [cmd : {"open_path"}, path : Paths, with : {None},
     command_scope : CommandScopes]
    \cup
    [cmd : {"open_path"}, path : {Report}, with : WithTokens,
     command_scope : CommandScopes]
    \cup
    [cmd : {"reveal_item_in_dir"}, path : Paths, with : {None},
     command_scope : CommandScopes]

Invocation(cmd, path, with, allows, denies) ==
    [cmd |-> cmd, path |-> path, with |-> with,
     command_scope |-> [allows |-> allows, denies |-> denies]]

\* What the other request slots are invoked with while one slot ranges over
\* Invocations.
BackgroundInvocations ==
    {Invocation("open_url", OkUrl, None, <<AnyExampleHost>>, <<EvilHost>>)}

\* The invocations of the runs in which every slot takes the same range.
ConcurrentInvocations ==
    {Invocation("open_url", OkUrl, None, <<AnyExampleHost>>, <<>>),
     Invocation("open_url", OkUrl, None, <<>>, <<>>),
     Invocation("open_url", OkUrl, None, <<>>, <<AnyExampleHost>>),
     Invocation("open_url", EvilUrl, Some(<<"C", "h", "r", "o", "m", "e">>),
                <<>>, <<EvilHost>>),
     Invocation("open_url", EvilUrl, None, <<>>, <<>>),
     Invocation("open_path", Report, None, <<DocsTree>>, <<>>),
     Invocation("open_path", Report, None, <<>>, <<>>),
     Invocation("open_path", Report, None, <<>>, <<DocsTree>>),
     Invocation("open_path", DotDotKey, None, <<DocsTree>>, <<>>),
     Invocation("open_path", Missing, None, <<>>, <<DocsTree>>),
     Invocation("reveal_item_in_dir", SecretKey, None, <<>>, <<>>)}

ConcurrentGlobalScopes ==
    {NoScope,
     [allows |-> <<AnyExampleHost>>, denies |-> <<>>],
     [allows |-> <<DocsTree>>, denies |-> <<EvilHost>>]}

\* Letter cases a program token is tried in.
char_to_uppercase(c) ==
    IF \E i \in 1..26 : LowerChars[i] = c
    THEN UpperChars[CHOOSE i \in 1..26 : LowerChars[i] = c]
    ELSE c

CaseModes == {"lower", "upper", "title", "alternate", "last"}

ApplyCase(s, mode) ==
    [i \in 1..Len(s) |->
        IF \/ mode = "upper"
           \/ mode = "title" /\ i = 1
           \/ mode = "alternate" /\ i % 2 = 1
           \/ mode = "last" /\ i = Len(s)
        THEN char_to_uppercase(s[i]) ELSE s[i]]

ParseBases ==
    {fmt(p) : p \in Program}
    \cup
    {<<"g", "o", "o", "g", "l", "e", " ", "c", "h", "r", "o", "m", "e">>,
     <<"g", "o", "o", "g", "l", "e", "-", "c", "h", "r", "o", "m", "e">>,
     <<"g", "o", "o", "g", "l", "e", "c", "h", "r", "o", "m", "e">>,
     <<"n", "o", "t", "-", "a", "-", "r", "e", "a", "l", "-", "p", "r", "o",
       "g", "r", "a", "m">>,
     <<"c", "h", "r", "o", "m", "e", " ">>,
     <<"x", "d", "g", "o", "p", "e", "n">>,
     <<"o", "p", "e", "n", "e", "r">>,
     <<>>}

ParseInputs ==
    {ApplyCase(b, m) : b \in ParseBases, m \in CaseModes}
    \cup
    {<<KelvinSign, "d", "e", "-", "o", "p", "e", "n">>,
     <<"w", "s", "l", KelvinSign, "i", "e", "w">>}

-----------------------------------------------------------------------------
(* The state machine *)

NoReq == [cmd |-> "none", path |-> <<>>, token |-> None, with |-> None,
          command_scope |-> NoScope]
NoResult == [ok |-> FALSE, kind |-> "Pending", payload |-> <<>>]
NoParse == [input |-> <<>>, done |-> TRUE, output |-> NoResult]

Idle ==
    /\ pc = [r \in Reqs |-> "idle"]
    /\ req = [r \in Reqs |-> NoReq]
    /\ scope = [r \in Reqs |-> Scope_new(<<>>, <<>>)]
    /\ result = [r \in Reqs |-> NoResult]
    /\ launches = [r \in Reqs |-> <<>>]

Init ==
    /\ target_os \in {"macos", "linux"}
    /\ globalScope \in GlobalScopes
    /\ Idle
    /\ parse = NoParse

InitConc ==
    /\ target_os \in {"macos", "linux"}
    /\ globalScope \in ConcurrentGlobalScopes
    /\ Idle
    /\ parse = NoParse

InitParse ==
    /\ target_os = "linux"
    /\ globalScope = NoScope
    /\ Idle
    /\ parse \in {[input |-> s, done |-> FALSE, output |-> NoResult] :
                    s \in ParseInputs}

\* A command is invoked: its arguments are deserialized, `with` by
\* Program::deserialize, and the body starts unless that failed.
Invoke(r, invocations) ==
    /\ pc[r] = "idle"
    /\ \E i \in invocations :
         LET d == deserialize_with(i.with) IN
         /\ req' = [req EXCEPT ![r] =
                      [cmd |-> i.cmd, path |-> i.path, token |-> i.with,
                       with |-> IF d.ok THEN d.val ELSE None,
                       command_scope |-> i.command_scope]]
         /\ pc' = [pc EXCEPT ![r] = IF d.ok THEN first_step(i.cmd) ELSE "done"]
         /\ result' = [result EXCEPT ![r] = IF d.ok THEN NoResult ELSE d]
    /\ UNCHANGED <<target_os, globalScope, scope, launches, parse>>

\* Scope::new on the merged entries.
BuildScope(r) ==
    /\ pc[r] = "scope"
    /\ scope' = [scope EXCEPT ![scope_binding(r)] =
                   IF req[r].cmd = "open_url"
                   THEN open_url_scope(req[r].command_scope, globalScope)
                   ELSE open_path_scope(req[r].command_scope, globalScope)]
    /\ pc' = [pc EXCEPT ![r] = "check"]
    /\ UNCHANGED <<target_os, globalScope, req, result, launches, parse>>

\* The `if` of the command: on to the opener, or the error is returned.
Check(r) ==
    /\ pc[r] = "check"
    /\ LET g == IF req[r].cmd = "open_url"
                THEN open_url_gate(scope[scope_binding(r)], req[r].path)
                ELSE open_path_gate(scope[scope_binding(r)], req[r].path)
       IN  IF g.proceed
           THEN /\ pc' = [pc EXCEPT ![r] = "launch"]
                /\ UNCHANGED result
           ELSE /\ pc' = [pc EXCEPT ![r] = "done"]
                /\ result' = [result EXCEPT ![r] = g.result]
    /\ UNCHANGED <<target_os, globalScope, req, scope, launches, parse>>

\* The call to the OS, which succeeds or fails; its result is the command's.
Launch(r) ==
    /\ pc[r] = "launch"
    /\ \E os_ok \in BOOLEAN :
         /\ launches' = [launches EXCEPT ![r] = Append(@,
               CASE req[r].cmd = "open_url" ->
                        open_url(req[r].path, req[r].with, target_os)
                 [] req[r].cmd = "open_path" ->
                        open_path(req[r].path, req[r].with, target_os)
                 [] req[r].cmd = "reveal_item_in_dir" ->
                        reveal_item_in_dir(req[r].path))]
         /\ result' = [result EXCEPT ![r] =
                         IF os_ok THEN Ok(<<>>) ELSE Err("OsOpenError", <<>>)]
    /\ pc' = [pc EXCEPT ![r] = "done"]
    /\ UNCHANGED <<target_os, globalScope, req, scope, parse>>

\* The result reaches the caller and the locals of the request are dropped.
Respond(r) ==
    /\ pc[r] = "done"
    /\ pc' = [pc EXCEPT ![r] = "idle"]
    /\ req' = [req EXCEPT ![r] = NoReq]
    /\ scope' = [scope EXCEPT ![scope_binding(r)] = Scope_new(<<>>, <<>>)]
    /\ result' = [result EXCEPT ![r] = NoResult]
    /\ launches' = [launches EXCEPT ![r] = <<>>]
    /\ UNCHANGED <<target_os, globalScope, parse>>

\* The request slots are interchangeable: the first ranges over every
\* invocation while the others are in flight beside it.
InvokeRequest(r) ==
    Invoke(r, IF r = 1 THEN Invocations ELSE BackgroundInvocations)

\* Every slot ranges over the same invocations.
InvokeConcurrently(r) == Invoke(r, ConcurrentInvocations)

\* Program::from_str on the input under test.
ParseProgram ==
    /\ ~parse.done
    /\ parse' = [parse EXCEPT !.done = TRUE, !.output = from_str(parse.input)]
    /\ UNCHANGED <<target_os, globalScope, pc, req, scope, result, launches>>

Next ==
    \E r \in Reqs :
        \/ InvokeRequest(r)
        \/ BuildScope(r)
        \/ Check(r)
        \/ Launch(r)
        \/ Respond(r)

NextConc ==
    \E r \in Reqs :
        \/ InvokeConcurrently(r)
        \/ BuildScope(r)
        \/ Check(r)
        \/ Launch(r)
        \/ Respond(r)

NextParse == ParseProgram

Spec == Init /\ [][Next]_vars
SpecConc == InitConc /\ [][NextConc]_vars
SpecParse == InitParse /\ [][NextParse]_vars

-----------------------------------------------------------------------------
(* Vocabulary of the properties *)

Range(s) == {s[i] : i \in DOMAIN s}

Gated(r) == req[r].cmd \in {"open_url", "open_path"}

IsError(r, kind) == pc[r] = "done" /\ ~result[r].ok /\ result[r].kind = kind

\* The `if` of the command has been evaluated for the request.
PastCheck(r) ==
    /\ Gated(r)
    /\ \/ pc[r] = "launch"
       \/ pc[r] = "done" /\ ~IsError(r, "DeserializeError")

\* The request was let through to the OS opener.
Permitted(r) == pc[r] = "launch" \/ launches[r] # <<>>

Forbidden(r) ==
    IF req[r].cmd = "open_url" THEN IsError(r, "ForbiddenUrl")
    ELSE IsError(r, "ForbiddenPath")

\* What the entries are matched against: the URL as given, the path as
\* resolved.
HasCandidate(r) == req[r].cmd = "open_url" \/ canonicalize(req[r].path).ok

EntryMatches(e, r) ==
    IF req[r].cmd = "open_url" THEN matches_url(e, req[r].path)
    ELSE /\ canonicalize(req[r].path).ok
         /\ matches_path(e, canonicalize(req[r].path).val)

AllowEntries(r) == Range(req[r].command_scope.allows) \cup Range(globalScope.allows)
DenyEntries(r) == Range(req[r].command_scope.denies) \cup Range(globalScope.denies)

\* The decision of the scope the handler holds for the request.
EffectiveDenial(r) ==
    IF req[r].cmd = "open_url"
    THEN ~is_url_allowed(scope[r], req[r].path)
    ELSE LET a == is_path_allowed(scope[r], req[r].path) IN a.ok /\ ~a.val

\* The decision the request's own call scope, the global scope and its own
\* resource give.
OwnDecision(r) ==
    IF req[r].cmd = "open_url"
    THEN is_url_allowed(open_url_scope(req[r].command_scope, globalScope),
                        req[r].path)
    ELSE LET a == is_path_allowed(
                      open_path_scope(req[r].command_scope, globalScope),
                      req[r].path)
         IN  a.ok /\ a.val

-----------------------------------------------------------------------------
(* Properties *)

\* C1: a request whose effective scope decides "denied" never reaches the OS
\* opener and ends with ForbiddenUrl (open_url) or ForbiddenPath (open_path).
DenialPreventsLaunch ==
    \A r \in Reqs :
        (PastCheck(r) /\ EffectiveDenial(r)) =>
            /\ launches[r] = <<>>
            /\ Forbidden(r)

DenialPreventsLaunchWitness ==
    \E r \in Reqs :
        /\ PastCheck(r) /\ EffectiveDenial(r)
        /\ req[r].cmd = "open_url"
        /\ IsError(r, "ForbiddenUrl")
        /\ \E e \in AllowEntries(r) : EntryMatches(e, r)

\* C2: a deny entry of the call scope or of the global scope that matches the
\* candidate makes the decision false, whichever source the matching allow
\* entries come from and however many of them match.
DenyOverridesAllow ==
    \A r \in Reqs :
        (PastCheck(r) /\ \E e \in DenyEntries(r) : EntryMatches(e, r)) =>
            /\ ~Permitted(r)
            /\ Forbidden(r)

DenyOverridesAllowWitness ==
    \E r \in Reqs :
        /\ PastCheck(r)
        /\ \E e \in Range(globalScope.denies) : EntryMatches(e, r)
        /\ ~\E e \in Range(req[r].command_scope.denies) : EntryMatches(e, r)
        /\ \E e \in Range(req[r].command_scope.allows) : EntryMatches(e, r)
        /\ \E e \in Range(globalScope.allows) : EntryMatches(e, r)
        /\ Forbidden(r)

\* C3: a candidate that no allow entry of the call scope or the global scope
\* matches is denied: no OS launch happens and the request ends with
\* ForbiddenUrl / ForbiddenPath; in particular with all four lists empty.
\* This is the claim as made; an open_path request whose path cannot be
\* resolved refutes it, since it ends with the resolution error instead.
DefaultDenyAsClaimed ==
    \A r \in Reqs :
        (PastCheck(r) /\ ~\E e \in AllowEntries(r) : EntryMatches(e, r)) =>
            /\ ~Permitted(r)
            /\ launches[r] = <<>>
            /\ Forbidden(r)

\* C3, amended: a request that no allow entry of the call scope or the
\* global scope matches never reaches the OS opener; it ends with
\* ForbiddenUrl / ForbiddenPath, except an open_path request whose path
\* cannot be resolved, which ends with the resolution error.
DefaultDeny ==
    \A r \in Reqs :
        (PastCheck(r) /\ ~\E e \in AllowEntries(r) : EntryMatches(e, r)) =>
            /\ ~Permitted(r)
            /\ launches[r] = <<>>
            /\ pc[r] = "done"
            /\ IF HasCandidate(r) THEN Forbidden(r)
               ELSE IsError(r, "PathResolutionError")

DefaultDenyWitness ==
    \E r \in Reqs :
        /\ PastCheck(r)
        /\ req[r].cmd = "open_path"
        /\ HasCandidate(r)
        /\ AllowEntries(r) = {} /\ DenyEntries(r) = {}
        /\ IsError(r, "ForbiddenPath")
        /\ launches[r] = <<>>

\* C4: a ForbiddenUrl / ForbiddenPath error carries the resource string of
\* the request unchanged; for open_path the string as requested, not the
\* resolved path the entries were matched against.
ForbiddenCarriesRequest ==
    \A r \in Reqs :
        (IsError(r, "ForbiddenUrl") \/ IsError(r, "ForbiddenPath")) =>
            /\ result[r].payload = req[r].path
            /\ Forbidden(r)

ForbiddenCarriesRequestWitness ==
    \E r \in Reqs :
        /\ IsError(r, "ForbiddenPath")
        /\ canonicalize(req[r].path).ok
        /\ canonicalize(req[r].path).val # req[r].path
        /\ result[r].payload = req[r].path

\* C5: an open_path request whose path cannot be resolved ends with the
\* resolution error, never with ForbiddenPath, and never reaches the OS
\* opener, whatever the allow and deny lists hold.
ResolutionFailureIsNotDenial ==
    \A r \in Reqs :
        (PastCheck(r) /\ req[r].cmd = "open_path"
                      /\ ~canonicalize(req[r].path).ok) =>
            /\ IsError(r, "PathResolutionError")
            /\ launches[r] = <<>>

ResolutionFailureIsNotDenialWitness ==
    \E r \in Reqs :
        /\ PastCheck(r) /\ req[r].cmd = "open_path"
        /\ ~canonicalize(req[r].path).ok
        /\ \E e \in DenyEntries(r) : matches_path(e, req[r].path)
        /\ IsError(r, "PathResolutionError")

\* C6: under the same call scope and global scope, an open_path request gets
\* the decision of every path string that resolves to the same path; and a
\* path with ".." whose resolved path no allow entry matches is denied even
\* if an allow entry matches the string as written.
SameResolvedPathSameDecision ==
    \A r \in Reqs :
        (PastCheck(r) /\ req[r].cmd = "open_path"
                      /\ canonicalize(req[r].path).ok) =>
            /\ \A q \in Paths :
                 canonicalize(q) = canonicalize(req[r].path) =>
                    (Permitted(r) <=>
                        LET a == is_path_allowed(
                                    open_path_scope(req[r].command_scope,
                                                    globalScope), q)
                        IN  a.ok /\ a.val)
            /\ ((\E i \in DOMAIN req[r].path : req[r].path[i] = "..")
                /\ ~\E e \in AllowEntries(r) :
                       matches_path(e, canonicalize(req[r].path).val))
               => IsError(r, "ForbiddenPath")

SameResolvedPathSameDecisionWitness ==
    \E r \in Reqs :
        /\ PastCheck(r) /\ req[r].cmd = "open_path"
        /\ req[r].path = DotDotKey
        /\ \E e \in AllowEntries(r) : matches_path(e, req[r].path)
        /\ DenyEntries(r) = {}
        /\ IsError(r, "ForbiddenPath")

\* C7: from_str matches the lowercase of its input against the canonical
\* tokens and the alias "google chrome", and fails with UnknownProgramName
\* carrying the input as given for everything else.
GoogleChrome == <<"g", "o", "o", "g", "l", "e", " ", "c", "h", "r", "o", "m", "e">>

ParseIsCaseInsensitive ==
    parse.done =>
        LET l == to_lowercase(parse.input) IN
        /\ \A p \in Program : fmt(p) = l => parse.output = Ok(p)
        /\ l = GoogleChrome => parse.output = Ok("Chrome")
        /\ (l # GoogleChrome /\ \A p \in Program : fmt(p) # l) =>
               parse.output = Err("UnknownProgramName", parse.input)

ParseIsCaseInsensitiveWitness ==
    /\ parse.done
    /\ parse.input = <<"G", "O", "O", "G", "L", "E", " ", "C", "H", "R", "O", "M", "E">>
    /\ parse.output = Ok("Chrome")

\* C8: reveal_item_in_dir never builds or asks a scope: whatever the call
\* scope and the global scope hold, its path is handed to the OS and it never
\* ends with ForbiddenPath or ForbiddenUrl.
RevealIsUngated ==
    \A r \in Reqs :
        req[r].cmd = "reveal_item_in_dir" =>
            /\ pc[r] \in {"launch", "done"}
            /\ ~IsError(r, "ForbiddenPath") /\ ~IsError(r, "ForbiddenUrl")
            /\ pc[r] = "done" => launches[r] = <<reveal_item_in_dir(req[r].path)>>

RevealIsUngatedWitness ==
    \E r \in Reqs :
        /\ req[r].cmd = "reveal_item_in_dir" /\ pc[r] = "done"
        /\ result[r].ok
        /\ AllowEntries(r) = {}
        /\ \E e \in DenyEntries(r) :
              matches_path(e, canonicalize(req[r].path).val)

\* C9: with requests in flight together, each request is let through exactly
\* when its own call scope, the global scope and its own resource say so; the
\* call scope of another request changes nothing.
DecisionIsOwn ==
    \A r \in Reqs : PastCheck(r) => (Permitted(r) <=> OwnDecision(r))

DecisionIsOwnWitness ==
    \E r1 \in Reqs : \E r2 \in Reqs \ {r1} :
        /\ PastCheck(r1) /\ PastCheck(r2)
        /\ req[r1].path = req[r2].path /\ req[r1].cmd = req[r2].cmd
        /\ \E e \in Range(req[r1].command_scope.allows) : EntryMatches(e, r1)
        /\ pc[r1] = "launch"
        /\ Forbidden(r2)

\* C10: a permitted request calls the OS opener exactly once, after the
\* decision, with the resource as requested: with_detached and the
\* executable name of the program when `with` was given, that_detached
\* otherwise; a failure of that call ends the request with OsOpenError and
\* the call is not repeated.
ExpectedLaunch(r) ==
    IF req[r].with.some
    THEN [fn |-> "with_detached", path |-> req[r].path,
          program |-> Some(name(req[r].with.val, target_os))]
    ELSE [fn |-> "that_detached", path |-> req[r].path, program |-> None]

PermittedLaunchesOnce ==
    \A r \in Reqs :
        Gated(r) =>
            /\ pc[r] # "done" => launches[r] = <<>>
            /\ (PastCheck(r) /\ pc[r] = "done" /\ OwnDecision(r)) =>
                  /\ launches[r] = <<ExpectedLaunch(r)>>
                  /\ result[r].ok \/ IsError(r, "OsOpenError")
            /\ IsError(r, "OsOpenError") => Len(launches[r]) = 1

PermittedLaunchesOnceWitness ==
    \E r \in Reqs :
        /\ Gated(r) /\ IsError(r, "OsOpenError")
        /\ req[r].with = Some("Chrome")
        /\ launches[r] = <<ExpectedLaunch(r)>>

=============================================================================
